---------------------------- MODULE Spec2Model ----------------------------
(***************************************************************************)
(* DepGraphModelSource (depgraph-navigator/src/browser/graph/              *)
(* model-source.ts): the controller that resolves dependency-graph nodes,  *)
(* filters them and keeps selection and centering in step with the model.  *)
(*                                                                         *)
(* Execution is single-threaded and cooperative: one action of this module *)
(* is the code that runs between two suspension points (an `await`, or the *)
(* settling of a generator fetch).  The action dispatcher delivers a       *)
(* dispatched SelectAction / SelectAllAction to the controller's handle()  *)
(* before any other task runs, so the handling is part of the action that  *)
(* dispatches.                                                             *)
(*                                                                         *)
(* Arrays of ids and of nodes are modelled as sets; Model.children is a    *)
(* bag (id -> number of occurrences) so that duplicates are observable.    *)
(***************************************************************************)
EXTENDS Naturals, FiniteSets, Sequences

VARIABLES
    index,       \* ids of the elements held by graphGenerator.index
    children,    \* Model.children: element id -> number of occurrences
    resolved,    \* ids of the indexed nodes with resolved = true
    hidden,      \* ids of the indexed elements with hidden = true
    error,       \* ids of the indexed nodes with a non-empty error
    filterText,  \* the Graph Filter's current text
    indicator,   \* "none": no loadIndicator configured; else the last signal
    fetches,     \* generator fetches in flight: [id, det, owner]
    rn,          \* resolveNodes calls in progress, per slot: [pc, center]
    rg,          \* the resolveGraph call in progress: [pc, newNodes, center]
                 \* with the frontier it started from and its waves so far
    cn,          \* createNode calls suspended in `await updateModel()`: ids
    flt,         \* the filter call suspended in `await updateModel()`
    elk,         \* TRUE while a Layout Engine pass is pending
    flaky,       \* the packages whose registry lookup may fail in this session
    pkgs,        \* the packages the registry knows in this session
    op,          \* the operation the last step ran, with its inputs
    out          \* what the last step emitted, in order

vars == <<index, children, resolved, hidden, error, filterText, indicator,
          fetches, rn, rg, cn, flt, elk, flaky, pkgs, op, out>>

---------------------------------------------------------------------------
(* Bounds and the universe of inputs *)

MaxBatches == 1

MaxPending == 2

BatchIds == 1..MaxBatches

Names == {"a", "b", "c"}

\* The packages of an ordinary session, and those of the chain a -> b -> c.
Pkgs == {"a", "b"}

Chain == {"a", "b", "c"}

\* The packages whose registry lookup may fail.
Flaky == {"a"}

Versions == {"", "1.0.0"}

Texts == {"", "a"}

\* The dependencies the registry reports for a package: a -> b -> c, as far
\* as the session's registry knows the packages.
Deps(n) == CASE n = "a" -> {"b"} \cap pkgs
             [] n = "b" -> {"c"} \cap pkgs
             [] OTHER   -> {}

\* The id of the edge the generator adds from package s to its dependency t.
EdgeId(s, t) == CASE s = "a" /\ t = "b" -> "a>b"
                  [] s = "b" /\ t = "c" -> "b>c"
                  [] OTHER              -> "x>x"

EdgeIds == {EdgeId(s, t) : s \in Names, t \in Names} \ {"x>x"}

EdgeSource(e) == CHOOSE s \in Names : \E t \in Names : EdgeId(s, t) = e

EdgeTarget(e) == CHOOSE t \in Names : \E s \in Names : EdgeId(s, t) = e

ElemIds == Names \cup EdgeIds

---------------------------------------------------------------------------
(* graph-model, graph-generator and graph-filter, at their interface *)

TypeOf(id) == IF id \in Names THEN "node" ELSE "edge"

\* isNode(index.getById(id)) in the Index idx
isNode(id, idx) == id \in idx /\ TypeOf(id) = "node"

\* generateNode(name, version).id
IdOf(name, version) == name

EmptyBag == [e \in ElemIds |-> 0]

BagAdd(bag, ids) == [e \in ElemIds |-> IF e \in ids THEN bag[e] + 1 ELSE bag[e]]

BagIds(bag) == {e \in ElemIds : bag[e] > 0}

\* The Graph Filter's verdict on one element under a filter text.
Matches(text, name) == text = "" \/ text = name

HiddenUnder(e, text, idx) ==
    IF TypeOf(e) = "node"
    THEN ~Matches(text, e)
    ELSE \/ EdgeSource(e) \notin idx \/ ~Matches(text, EdgeSource(e))
         \/ EdgeTarget(e) \notin idx \/ ~Matches(text, EdgeTarget(e))

\* graphFilter.refresh(graph, index): every element's hidden, recomputed
Refresh(text, idx) == {e \in idx : HiddenUnder(e, text, idx)}

\* What a fulfilled resolveNode(node) adds: the dependencies not yet indexed
\* (these are the nodes it returns) and the edges to all its dependencies.
NewChildren(id, idx) == {d \in Deps(id) : d \notin idx}

NewEdges(id, idx) == {EdgeId(id, d) : d \in Deps(id)} \ idx

---------------------------------------------------------------------------
(* What a step emits *)

Load(b)       == [k |-> "load", on |-> b]
FetchEv(ids)  == [k |-> "fetch", ids |-> ids]
RefreshEv     == [k |-> "refresh"]
CommitEv      == [k |-> "commit"]
SelectEv(ids) == [k |-> "select", ids |-> ids]
FitEv(ids)    == [k |-> "fit", ids |-> ids]
SelectAllEv(s) == [k |-> "selectAll", select |-> s]

\* loadIndicator(b), when one is configured
Signal(ind, b) == IF ind = "none" THEN <<>> ELSE <<Load(b)>>

Signalled(ind, b) == IF ind = "none" THEN "none" ELSE IF b THEN "on" ELSE "off"

Idle == [pc |-> "idle", center |-> {}]

RgIdle == [pc |-> "idle", newNodes |-> {}, center |-> {}, start |-> {}, waves |-> 0]

NoFilter == [pending |-> FALSE, center |-> {}]

Owner(kind, slot) == [kind |-> kind, slot |-> slot]

Fetch(id, det, owner) == [id |-> id, det |-> det, owner |-> owner]

OwnedByNone(fs, owner) == {}

\* the promises of one `await Promise.all(promises)` that are still pending
OwnedBy(fs, owner) == {f \in fs : f.owner = owner}

Orphaned(fs, owner) ==
    {IF f.owner = owner THEN Fetch(f.id, f.det, Owner("orphan", 0)) ELSE f : f \in fs}

---------------------------------------------------------------------------
(* The state after construction and start(): the generator's empty graph *)

StartedWith(fl, ps) ==
    /\ index = {}
    /\ children = EmptyBag
    /\ resolved = {}
    /\ hidden = {}
    /\ error = {}
    /\ filterText = ""
    /\ indicator = "off"
    /\ fetches = {}
    /\ rn = [b \in BatchIds |-> Idle]
    /\ rg = RgIdle
    /\ cn = {}
    /\ flt = NoFilter
    /\ elk = FALSE
    /\ flaky = fl
    /\ pkgs = ps
    /\ op = [name |-> "start"]
    /\ out = <<CommitEv>>

Started(fl) == StartedWith(fl, Pkgs)

Init == Started(Flaky)

\* A session in which every registry lookup succeeds.
InitOK == Started({})

---------------------------------------------------------------------------
(* select and center *)

SelectFilterNoHidden(ids) == {id \in ids : isNode(id, index)}

\* the filter callback of select
SelectFilter(ids) == {id \in ids : isNode(id, index) /\ id \notin hidden}

\* the filter callback of center
CenterFilter(ids) == {id \in ids : isNode(id, index) /\ id \notin hidden}

\* what select(ids) dispatches
SelectOut(ids) == IF ids # {} THEN <<SelectEv(SelectFilter(ids))>> ELSE <<>>

\* what center(ids) dispatches
CenterOut(ids) == IF ids # {} THEN <<FitEv(CenterFilter(ids))>> ELSE <<>>

SelectedNodesNone(ids) == {}

\* handleSelect: the selected ids that the Index resolves to a node
SelectedNodes(ids) == {id \in ids : id \in index /\ TypeOf(id) = "node"}

\* handleSelectAll: every indexed element of type node
AllNodes == {id \in index : TypeOf(id) = "node"}

---------------------------------------------------------------------------
(* resolveNodes, up to its first suspension *)

ShortCircuitResolvedOnly(nodes) == \A n \in nodes : n \in resolved

ShortCircuitNever(nodes) == FALSE

\* the short-circuit test of resolveNodes
ShortCircuit(nodes) == \A n \in nodes : n \in hidden \/ n \in resolved

TargetsAll(nodes) == nodes

TargetsUnresolved(nodes) == {n \in nodes : n \notin hidden /\ n \notin resolved}

\* the nodes resolveNodes calls the generator for, and centers on at the end
Targets(nodes) == {n \in nodes : n \notin hidden}

SyncErrorDropped(err, thrown) == err

\* node.error = error.toString() for the nodes whose generator call threw
SyncError(err, thrown) == err \cup thrown

CatchResolvedReset(res, thrown) == res \ thrown

\* the catch block assigns nothing but error: resolved stays as it is
CatchResolved(res, thrown) == res

FreeSlots == {b \in BatchIds : rn[b].pc = "idle"}

\* The calls and fetches now suspended; at most MaxPending of them overlap.
Orphans == OwnedBy(fetches, Owner("orphan", 0))

Busy == Cardinality(cn) + Cardinality(BatchIds \ FreeSlots)
        + (IF flt.pending THEN 1 ELSE 0) + (IF rg.pc # "idle" THEN 1 ELSE 0)
        + (IF Orphans # {} THEN 1 ELSE 0) + (IF elk THEN 1 ELSE 0)

CanStart(ended) == Busy < MaxPending + ended

FreeSlot == CHOOSE b \in FreeSlots : \A c \in FreeSlots : b <= c

\* resolveNodes(nodes) where the generator call throws for the nodes in thr:
\* the values it leaves and what it emits, up to `await Promise.all` (or, when
\* no call returned a pending result, up to `await this.updateModel()`).
ResolveNodes(nodes, thr) ==
    IF ShortCircuit(nodes)
    THEN [error |-> error, resolved |-> resolved, fetches |-> fetches, rn |-> rn,
          hidden |-> hidden, indicator |-> indicator, out |-> CenterOut(nodes)]
    ELSE LET b       == FreeSlot
             targets == Targets(nodes)
             called  == targets \ thr
             err1    == SyncError(error, targets \cap thr)
             res1    == CatchResolved(resolved, targets \cap thr)
         IN  IF called = {}
             THEN [error |-> err1, resolved |-> res1, fetches |-> fetches,
                   rn |-> [rn EXCEPT ![b] = [pc |-> "commit", center |-> targets]],
                   hidden |-> Refresh(filterText, index),
                   indicator |-> Signalled(indicator, TRUE),
                   out |-> Signal(indicator, TRUE) \o <<RefreshEv, CommitEv>>]
             ELSE [error |-> err1, resolved |-> res1,
                   fetches |-> fetches \cup
                       {Fetch(n, FALSE, Owner("rn", b)) : n \in called},
                   rn |-> [rn EXCEPT ![b] = [pc |-> "fetching", center |-> targets]],
                   hidden |-> hidden,
                   indicator |-> Signalled(indicator, TRUE),
                   out |-> Signal(indicator, TRUE) \o <<FetchEv(called)>>]

\* A call of resolveNodes(nodes) made by the running step, after it emitted
\* pre.  At most MaxBatches calls are between their start and their end.
CallResolveNodes(nodes, pre, ended) ==
    \E thr \in SUBSET (Targets(nodes) \cap flaky) :
        /\ ShortCircuit(nodes) \/ (FreeSlots # {} /\ CanStart(ended))
        /\ LET r == ResolveNodes(nodes, thr)
           IN  /\ error' = r.error
               /\ resolved' = r.resolved
               /\ fetches' = r.fetches
               /\ rn' = r.rn
               /\ hidden' = r.hidden
               /\ indicator' = r.indicator
               /\ out' = pre \o r.out

\* The dispatcher hands a SelectAction naming ids to handle(): handleSelect.
HandleSelectAction(ids, pre, ended) ==
    IF SelectedNodes(ids) # {}
    THEN CallResolveNodes(SelectedNodes(ids), pre, ended)
    ELSE /\ out' = pre
         /\ UNCHANGED <<error, resolved, fetches, rn, hidden, indicator>>

\* select(elementIds)
Select(ids) ==
    /\ op' = [name |-> "select", ids |-> ids]
    /\ UNCHANGED <<elk, flaky, pkgs>>
    /\ IF ids # {}
       THEN HandleSelectAction(SelectFilter(ids), SelectOut(ids), 0)
       ELSE /\ out' = <<>>
            /\ UNCHANGED <<error, resolved, fetches, rn, hidden, indicator>>
    /\ UNCHANGED <<index, children, filterText, rg, cn, flt>>

\* center(elementIds)
Center(ids) ==
    /\ op' = [name |-> "center", ids |-> ids]
    /\ UNCHANGED <<elk, flaky, pkgs>>
    /\ out' = CenterOut(ids)
    /\ UNCHANGED <<index, children, resolved, hidden, error, filterText,
                   indicator, fetches, rn, rg, cn, flt>>

\* A SelectAction dispatched by the rendering surface (the user picks elements)
HandleSelect(ids) ==
    /\ op' = [name |-> "handleSelect", ids |-> ids]
    /\ UNCHANGED <<elk, flaky, pkgs>>
    /\ HandleSelectAction(ids, <<>>, 0)
    /\ UNCHANGED <<index, children, filterText, rg, cn, flt>>

\* A SelectAllAction dispatched by the rendering surface
HandleSelectAll(select) ==
    /\ op' = [name |-> "handleSelectAll", select |-> select]
    /\ UNCHANGED <<elk, flaky, pkgs>>
    /\ IF select /\ AllNodes # {}
       THEN CallResolveNodes(AllNodes, <<>>, 0)
       ELSE /\ out' = <<>>
            /\ UNCHANGED <<error, resolved, fetches, rn, hidden, indicator>>
    /\ UNCHANGED <<index, children, filterText, rg, cn, flt>>

\* resolveNodes after `await this.updateModel()`
ResolveNodesEnd(b) ==
    /\ rn[b].pc = "commit"
    /\ op' = [name |-> "resolveNodesEnd", slot |-> b]
    /\ UNCHANGED <<elk, flaky, pkgs>>
    /\ out' = Signal(indicator, FALSE) \o CenterOut(rn[b].center)
    /\ indicator' = Signalled(indicator, FALSE)
    /\ rn' = [rn EXCEPT ![b] = Idle]
    /\ UNCHANGED <<index, children, resolved, hidden, error, filterText,
                   fetches, rg, cn, flt>>

---------------------------------------------------------------------------
(* createNode, filter, clear *)

\* generateNode(name, version): the node is added unless its id is indexed
GenerateIndex(id) == index \cup {id}

GenerateChildren(id) == IF id \in index THEN children ELSE BagAdd(children, {id})

IsNewAfterGenerate(name) == name \notin GenerateIndex(name)

\* const isNew = this.graphGenerator.index.getById(name) === undefined
IsNew(name) == name \notin index

\* createNode(name, version), up to `await this.updateModel()`
CreateNode(name, version) ==
    /\ IsNew(name) => IdOf(name, version) \notin cn /\ CanStart(0)
    /\ op' = [name |-> "createNode", id |-> IdOf(name, version)]
    /\ UNCHANGED <<elk, flaky, pkgs>>
    /\ index' = GenerateIndex(IdOf(name, version))
    /\ children' = GenerateChildren(IdOf(name, version))
    /\ IF IsNew(name)
       THEN /\ out' = <<CommitEv>>
            /\ cn' = cn \cup {IdOf(name, version)}
       ELSE /\ out' = <<>>
            /\ cn' = cn
    /\ UNCHANGED <<resolved, hidden, error, filterText, indicator, fetches,
                   rn, rg, flt>>

\* createNode after the await: this.select([node.id])
CreateNodeEnd(id) ==
    /\ id \in cn
    /\ op' = [name |-> "createNodeEnd", id |-> id]
    /\ UNCHANGED <<elk, flaky, pkgs>>
    /\ cn' = cn \ {id}
    /\ HandleSelectAction(SelectFilter({id}), SelectOut({id}), 1)
    /\ UNCHANGED <<index, children, filterText, rg, flt>>

VisibleChildrenStale(ch, hid) == {c \in BagIds(ch) : TypeOf(c) = "node" /\ c \notin hidden}

\* the ids filter and resolveGraph capture for their final center
VisibleChildren(ch, hid) == {c \in BagIds(ch) : TypeOf(c) = "node" /\ c \notin hid}

\* filter(text), up to `await this.updateModel()`
Filter(text) ==
    /\ ~flt.pending
    /\ CanStart(0)
    /\ op' = [name |-> "filter", text |-> text]
    /\ UNCHANGED <<elk, flaky, pkgs>>
    /\ filterText' = text
    /\ hidden' = Refresh(text, index)
    /\ out' = <<RefreshEv, SelectAllEv(FALSE), CommitEv>>
    /\ flt' = [pending |-> TRUE,
               center |-> VisibleChildren(children, Refresh(text, index))]
    /\ UNCHANGED <<index, children, resolved, error, indicator, fetches, rn,
                   rg, cn>>

\* filter after the await: this.center(center)
FilterEnd ==
    /\ flt.pending
    /\ op' = [name |-> "filterEnd"]
    /\ UNCHANGED <<elk, flaky, pkgs>>
    /\ out' = CenterOut(flt.center)
    /\ flt' = NoFilter
    /\ UNCHANGED <<index, children, resolved, hidden, error, filterText,
                   indicator, fetches, rn, rg, cn>>

ClearIndexKeep == index

\* index.remove(element) for every element of model.children
ClearIndex == index \ BagIds(children)

\* this.model.children = []
ClearChildren == EmptyBag

ClearFilterKeep == filterText

\* this.graphFilter.setFilter('')
ClearFilter == ""

DetachCancel(s) == {}

\* A node object a pending fetch or frontier entry refers to is detached once
\* clear has removed it from the model.
Detach(s) == {[r EXCEPT !.det = TRUE] : r \in s}

\* clear()
Clear ==
    /\ op' = [name |-> "clear"]
    /\ UNCHANGED <<elk, flaky, pkgs>>
    /\ index' = ClearIndex
    /\ children' = ClearChildren
    /\ filterText' = ClearFilter
    /\ resolved' = resolved \cap ClearIndex
    /\ hidden' = hidden \cap ClearIndex
    /\ error' = error \cap ClearIndex
    /\ fetches' = Detach(fetches)
    /\ rg' = [rg EXCEPT !.newNodes = Detach(rg.newNodes)]
    /\ out' = <<CommitEv>>
    /\ UNCHANGED <<indicator, rn, cn, flt>>

---------------------------------------------------------------------------
(* Layout application *)

BoundsEv(ids) == [k |-> "bounds", ids |-> ids]
AlignEv(ids)  == [k |-> "align", ids |-> ids]
LogEv         == [k |-> "log"]

PresentAll(ids) == ids

\* the entries whose element index.getById finds
Present(ids) == {id \in ids : id \in index}

\* handleComputedBounds(action): action.bounds names the ids bs and
\* action.alignments, when defined, the same ids; up to elk.layout(...)
HandleComputedBounds(bs, aligned) ==
    /\ ~elk
    /\ CanStart(0)
    /\ op' = [name |-> "computedBounds", ids |-> bs, aligned |-> aligned]
    /\ UNCHANGED <<flaky, pkgs>>
    /\ elk' = TRUE
    /\ out' = <<BoundsEv(Present(bs))>>
              \o (IF aligned THEN <<AlignEv(Present(bs))>> ELSE <<>>)
    /\ UNCHANGED <<index, children, resolved, hidden, error, filterText,
                   indicator, fetches, rn, rg, cn, flt>>

\* The Layout Engine pass settles: doSubmitModel(root, true), after
\* logger.error when it rejected.
LayoutSettles(ok) ==
    /\ elk
    /\ op' = [name |-> "layoutSettles", ok |-> ok]
    /\ UNCHANGED <<flaky, pkgs>>
    /\ elk' = FALSE
    /\ out' = (IF ok THEN <<>> ELSE <<LogEv>>) \o <<CommitEv>>
    /\ UNCHANGED <<index, children, resolved, hidden, error, filterText,
                   indicator, fetches, rn, rg, cn, flt>>

---------------------------------------------------------------------------
(* resolveGraph *)

RgOwner == Owner("rg", 0)

MayThrow(nodes) == {n \in nodes : n.id \in flaky}

\* model.children.filter(c => isNode(c) && !c.resolved)
Frontier == {[id |-> c, det |-> FALSE] :
                c \in {c \in BagIds(children) : TypeOf(c) = "node" /\ c \notin resolved}}

\* The frontier nodes whose error field is set: the generator call threw
\* (a detached node's error is no longer part of the model).
WaveError(err, thrown, idx) == err \cup {n.id : n \in {m \in thrown : ~m.det /\ m.id \in idx}}

\* The while loop of resolveGraph from its head with frontier `nodes`, where
\* the generator call throws for the nodes in thr, in a state whose Index,
\* children, errors and fetches are idx, ch, err and fs: up to the next
\* `await Promise.all`, or past the loop up to `await this.updateModel()`.
Wave(nodes, thr, idx, ch, err, fs) ==
    IF nodes \ thr = {}
    THEN [error |-> WaveError(err, thr, idx), fetches |-> fs,
          rg |-> [pc |-> "commit", newNodes |-> {},
                  center |-> VisibleChildren(ch, Refresh(filterText, idx)),
                  start |-> rg.start,
                  waves |-> rg.waves + (IF nodes = {} THEN 0 ELSE 1)],
          hidden |-> Refresh(filterText, idx),
          out |-> <<RefreshEv, CommitEv>>]
    ELSE [error |-> WaveError(err, thr, idx),
          fetches |-> fs \cup {Fetch(n.id, n.det, RgOwner) : n \in nodes \ thr},
          rg |-> [pc |-> "fetching", newNodes |-> {}, center |-> {},
                  start |-> rg.start, waves |-> rg.waves + 1],
          hidden |-> hidden,
          out |-> <<FetchEv({n.id : n \in nodes \ thr})>>]

\* resolveGraph(), up to its first suspension
ResolveGraph ==
    /\ rg.pc = "idle"
    /\ CanStart(0)
    /\ op' = [name |-> "resolveGraph"]
    /\ UNCHANGED <<elk, flaky, pkgs>>
    /\ \E thr \in SUBSET MayThrow(Frontier) :
          LET r == Wave(Frontier, thr, index, children, error, fetches)
          IN  /\ error' = r.error
              /\ fetches' = r.fetches
              /\ rg' = [r.rg EXCEPT !.start = {n.id : n \in Frontier}]
              /\ hidden' = r.hidden
              /\ out' = Signal(indicator, TRUE) \o r.out
    /\ indicator' = Signalled(indicator, TRUE)
    /\ UNCHANGED <<index, children, resolved, filterText, rn, cn, flt>>

\* resolveGraph after `await this.updateModel()`
ResolveGraphEnd ==
    /\ rg.pc = "commit"
    /\ op' = [name |-> "resolveGraphEnd"]
    /\ UNCHANGED <<elk, flaky, pkgs>>
    /\ out' = Signal(indicator, FALSE) \o CenterOut(rg.center)
    /\ indicator' = Signalled(indicator, FALSE)
    /\ rg' = RgIdle
    /\ UNCHANGED <<index, children, resolved, hidden, error, filterText,
                   fetches, rn, cn, flt>>

---------------------------------------------------------------------------
(* A generator fetch settles *)

\* The generator's mutation of the shared model when resolveNode(f.id)
\* succeeds: the node is resolved and its error cleared (when the node object
\* is still the indexed one), its unknown dependencies and edges are added.
GenIndex(f) == index \cup NewChildren(f.id, index) \cup NewEdges(f.id, index)

GenChildren(f) == BagAdd(children, NewChildren(f.id, index) \cup NewEdges(f.id, index))

GenResolved(f) == IF ~f.det /\ f.id \in index THEN resolved \cup {f.id} ELSE resolved

GenError(f) == IF ~f.det /\ f.id \in index THEN error \ {f.id} ELSE error

PushedNothing(f) == rg.newNodes

\* newNodes.push(...result)
Pushed(f) == rg.newNodes \cup {[id |-> d, det |-> FALSE] : d \in NewChildren(f.id, index)}

\* The pending result of resolveNode settles with the new child nodes.
FetchFulfil(f) ==
    /\ f \in fetches
    /\ op' = [name |-> "fulfil", fetch |-> f]
    /\ UNCHANGED <<elk, flaky, pkgs>>
    /\ index' = GenIndex(f)
    /\ children' = GenChildren(f)
    /\ resolved' = GenResolved(f)
    /\ UNCHANGED <<filterText, cn, flt>>
    /\ CASE f.owner.kind = "rn" ->
              \* Promise.all settles with the last fetch of the call
              /\ IF OwnedBy(fetches \ {f}, f.owner) = {}
                 THEN /\ hidden' = Refresh(filterText, GenIndex(f))
                      /\ rn' = [rn EXCEPT ![f.owner.slot].pc = "commit"]
                      /\ out' = <<RefreshEv, CommitEv>>
                 ELSE /\ out' = <<>>
                      /\ UNCHANGED <<hidden, rn>>
              /\ error' = GenError(f)
              /\ fetches' = fetches \ {f}
              /\ UNCHANGED <<rg, indicator>>
         [] f.owner.kind = "rg" ->
              /\ IF OwnedBy(fetches \ {f}, f.owner) = {}
                 THEN \E thr \in SUBSET MayThrow(Pushed(f)) :
                         LET r == Wave(Pushed(f), thr, GenIndex(f), GenChildren(f),
                                       GenError(f), fetches \ {f})
                         IN  /\ error' = r.error
                             /\ fetches' = r.fetches
                             /\ rg' = r.rg
                             /\ hidden' = r.hidden
                             /\ out' = r.out
                 ELSE /\ rg' = [rg EXCEPT !.newNodes = Pushed(f)]
                      /\ error' = GenError(f)
                      /\ fetches' = fetches \ {f}
                      /\ out' = <<>>
                      /\ UNCHANGED hidden
              /\ UNCHANGED <<rn, indicator>>
         [] OTHER ->
              /\ error' = GenError(f)
              /\ fetches' = fetches \ {f}
              /\ out' = <<>>
              /\ UNCHANGED <<hidden, rn, rg, indicator>>

\* What a rejection leaves of the call that awaits the fetch: Promise.all
\* rejects at once, the async function ends with the rejection and none of
\* its remaining statements run.
AbortRn(b) == [rn EXCEPT ![b] = Idle]

AbortRg == RgIdle

\* The pending result of resolveNode rejects.
FetchReject(f) ==
    /\ f \in fetches
    /\ f.id \in flaky
    /\ op' = [name |-> "reject", fetch |-> f,
              siblings |-> {g.id : g \in OwnedBy(fetches \ {f}, f.owner)}]
    /\ UNCHANGED <<elk, flaky, pkgs>>
    /\ fetches' = Orphaned(fetches \ {f}, f.owner)
    /\ rn' = IF f.owner.kind = "rn" THEN AbortRn(f.owner.slot) ELSE rn
    /\ rg' = IF f.owner.kind = "rg" THEN AbortRg ELSE rg
    /\ out' = <<>>
    /\ UNCHANGED <<index, children, resolved, hidden, error, filterText,
                   indicator, cn, flt>>

---------------------------------------------------------------------------
\* The id lists a caller passes: no id, one node, or every id; each id may
\* or may not be indexed when the call is made.
IdSets == {{}} \cup {{n} : n \in pkgs} \cup {ElemIds}

Ops ==
    \/ \E ids \in IdSets : Select(ids)
    \/ \E ids \in IdSets : Center(ids)
    \/ \E ids \in IdSets : HandleSelect(ids)
    \/ \E s \in BOOLEAN : HandleSelectAll(s)
    \/ \E b \in BatchIds : ResolveNodesEnd(b)
    \/ \E n \in pkgs, v \in Versions : CreateNode(n, v)
    \/ \E id \in Names : CreateNodeEnd(id)
    \/ \E t \in Texts : Filter(t)
    \/ FilterEnd
    \/ Clear
    \/ ResolveGraph
    \/ ResolveGraphEnd
    \/ \E f \in fetches : FetchFulfil(f)
    \/ \E bs \in IdSets, aligned \in BOOLEAN : HandleComputedBounds(bs, aligned)
    \/ \E ok \in BOOLEAN : LayoutSettles(ok)

Next ==
    \/ Ops
    \/ \E f \in fetches : FetchReject(f)

Spec == Init /\ [][Next]_vars

\* The sessions in which no generator call throws and no fetch rejects.
SpecOK == InitOK /\ [][Ops]_vars

\* The sessions without failure in which packages are created, selected,
\* resolved and cleared, where every pending fetch settles in the end and
\* every call suspended in `await this.updateModel()` is resumed.
Owners == {Owner("rn", b) : b \in BatchIds} \cup {Owner("rg", 0), Owner("orphan", 0)}

AllFetches == {Fetch(id, det, o) : id \in Names, det \in BOOLEAN, o \in Owners}

Fairness ==
    /\ \A f \in AllFetches : WF_vars(FetchFulfil(f))
    /\ \A b \in BatchIds : WF_vars(ResolveNodesEnd(b))
    /\ WF_vars(ResolveGraphEnd)

NextClear ==
    \/ \E n \in pkgs, v \in Versions : CreateNode(n, v)
    \/ \E id \in Names : CreateNodeEnd(id)
    \/ \E s \in BOOLEAN : HandleSelectAll(s)
    \/ \E b \in BatchIds : ResolveNodesEnd(b)
    \/ Clear
    \/ ResolveGraph
    \/ ResolveGraphEnd
    \/ \E f \in fetches : FetchFulfil(f)

SpecClear == InitOK /\ [][NextClear]_vars /\ Fairness

\* The sessions over the chain a -> b -> c in which the user creates the root
\* package a and resolveGraph runs with nothing else in progress.
InitChain == StartedWith(Flaky, Chain)

NextChain ==
    \/ rg.pc = "idle" /\ \E v \in Versions : CreateNode("a", v)
    \/ rg.pc = "idle" /\ CreateNodeEnd("a")
    \/ rg.pc = "idle" /\ \E ids \in IdSets : HandleSelect(ids)
    \/ rg.pc = "idle" /\ \E ids \in IdSets : Center(ids)
    \/ \E b \in BatchIds : ResolveNodesEnd(b)
    \/ Busy = 0 /\ ResolveGraph
    \/ ResolveGraphEnd
    \/ \E f \in fetches : FetchFulfil(f)
    \/ \E f \in fetches : FetchReject(f)

SpecChain == InitChain /\ [][NextChain]_vars

---------------------------------------------------------------------------
(* Properties *)

Has(o, e) == \E i \in 1..Len(o) : o[i] = e

Emits(o, kind) == \E i \in 1..Len(o) : o[i].k = kind

Count(o, kind) == Cardinality({i \in 1..Len(o) : o[i].k = kind})

NodesOf(ch) == {c \in ElemIds : ch[c] > 0 /\ c \in Names}

\* C1: Isolation.  When the pending result of one node of a resolveNodes
\* batch rejects while fetches of its siblings are pending, that node ends
\* with an error and the batch goes on waiting for the siblings, to its
\* filter pass and commit, so that the siblings' results are committed.
C1_Isolation ==
    (/\ op.name = "reject" /\ op.fetch.owner.kind = "rn"
     /\ ~op.fetch.det /\ op.siblings # {})
        => /\ op.fetch.id \in error
           /\ rn[op.fetch.owner.slot].pc \in {"fetching", "commit"}

\* C2: Load-indicator pairing.  A resolution batch that has signalled
\* loadIndicator(true) ends only by signalling loadIndicator(false),
\* whatever the outcome of its fetches.
C2_LoadPairing ==
    [][/\ \A b \in BatchIds :
             (rn[b].pc # "idle" /\ rn'[b].pc = "idle") => Has(out', Load(FALSE))
       /\ (rg.pc # "idle" /\ rg'.pc = "idle") => Has(out', Load(FALSE))]_vars


\* The requested ids that the Index resolves to a node that is not hidden.
VisibleNodeIds(ids) == {id \in ids : id \in index /\ id \in Names /\ id \notin hidden}

\* The nodes a view-action handled by the controller passes to resolveNodes.
PassedTo(o) ==
    CASE o.name = "handleSelect"    -> {id \in o.ids : id \in index /\ id \in Names}
      [] o.name = "handleSelectAll" -> IF o.select THEN index \cap Names ELSE {}
      [] OTHER                      -> {}

\* C3: Short-circuit.  A resolveNodes call whose nodes are all hidden or
\* resolved issues no fetch, signals no load indicator, runs no filter pass
\* and no commit: it emits one center on the given ids and changes nothing.
C3_ShortCircuit ==
    [][(/\ PassedTo(op') # {}
        /\ \A n \in PassedTo(op') : n \in hidden \/ n \in resolved)
           => /\ out' = <<FitEv({n \in PassedTo(op') : n \notin hidden})>>
              /\ UNCHANGED <<index, children, resolved, hidden, error, filterText,
                             indicator, fetches, rn, rg>>]_vars

C3_Witness ==
    /\ op.name = "handleSelect"
    /\ \E n \in op.ids : n \in resolved /\ n \notin hidden
    /\ \E n \in op.ids : n \in Names /\ n \in hidden /\ n \notin resolved
    /\ Len(out) = 1 /\ out[1].k = "fit"

\* C4: Visibility filtering.  For a non-empty id list, select dispatches one
\* selection and center one fit, each naming exactly the requested ids that
\* are indexed nodes and not hidden.
C4_VisibilityFiltering ==
    [][/\ (op'.name = "select" /\ op'.ids # {})
            => /\ Count(out', "select") = 1
               /\ out'[1] = SelectEv(VisibleNodeIds(op'.ids))
       /\ (op'.name = "center" /\ op'.ids # {})
            => out' = <<FitEv(VisibleNodeIds(op'.ids))>>]_vars

C4_Witness ==
    /\ op.name = "select"
    /\ \E h \in op.ids : h \in Names /\ h \in hidden
    /\ \E e \in op.ids : e \in index /\ e \notin Names
    /\ \E n \in op.ids : out[1] = SelectEv({n})

\* C5: Identity.  After createNode the Index and the model hold the node's id
\* exactly once; the call commits and (after the commit) selects when the id
\* was not indexed before, and does neither when it was.
C5_Identity ==
    [][/\ op'.name = "createNode"
            => /\ op'.id \in index' /\ children'[op'.id] = 1
               /\ IF op'.id \in index
                  THEN out' = <<>> /\ cn' = cn
                  ELSE out' = <<CommitEv>> /\ cn' = cn \cup {op'.id}
       /\ op'.name = "createNodeEnd"
            => /\ op'.id \in cn /\ cn' = cn \ {op'.id}
               /\ Count(out', "select") = 1]_vars

C5_Witness ==
    /\ op.name = "createNode"
    /\ out = <<>>
    /\ children[op.id] = 1 /\ op.id \in index

\* C6: Clear.  clear() leaves the Index empty, Model.children empty and the
\* filter text empty, and a filter("") that follows it changes none of them.
C6_Clear ==
    [][/\ op'.name = "clear"
            => index' = {} /\ children' = EmptyBag /\ filterText' = ""
       /\ (op.name = "clear" /\ op'.name = "filter" /\ op'.text = "")
            => index' = {} /\ children' = EmptyBag /\ filterText' = ""]_vars

C6_Witness ==
    /\ op.name = "clear"
    /\ \E f \in fetches : f.det
    /\ index = {} /\ filterText = ""

\* C7: Model/Index consistency.  In every reachable state the ids of
\* Model.children are the ids of the Index, each occurring once.
C7_Consistency ==
    /\ {e \in ElemIds : children[e] > 0} = index
    /\ \A e \in ElemIds : children[e] <= 1

C7_Witness ==
    /\ op.name = "fulfil"
    /\ op.fetch.det
    /\ index # {}

\* C8: resolveGraph convergence.  In a session where every fetch succeeds,
\* when resolveGraph leaves its loop (the step that runs its final filter pass
\* and commit) every node of Model.children is resolved.
C8_AllResolved ==
    (/\ rg.pc = "commit" /\ Emits(out, "commit")
     /\ \/ op.name = "resolveGraph"
        \/ op.name = "fulfil" /\ op.fetch.owner.kind = "rg")
        => NodesOf(children) \subseteq resolved

\* C9: Resolution is monotonic.  No step makes the resolved flag of a node
\* that stays in the Index false again.
C9_Monotonic ==
    [][\A n \in Names : (n \in resolved /\ n \in index /\ n \in index') => n \in resolved']_vars

C9_Witness ==
    /\ op.name \in {"select", "handleSelect", "handleSelectAll"}
    /\ \E n \in resolved : n \in error /\ Emits(out, "load")

\* C10 as stated: neither select nor center changes the model, the Index or
\* an element's resolved, hidden or error field, or causes a generator fetch.
C10_Pure ==
    [][op'.name \in {"select", "center"}
          => /\ UNCHANGED <<index, children, resolved, hidden, error>>
             /\ fetches' = fetches]_vars

\* C10, amended: center changes nothing and causes no fetch.  select changes
\* neither the model nor the Index nor any resolved flag; the selection it
\* dispatches is handled by the controller, which resolves the selected
\* visible nodes: nothing else changes when all of them are resolved, and
\* otherwise fetches are issued, and errors set, only for those nodes.
C10_Projection ==
    [][/\ op'.name = "center"
            => /\ UNCHANGED <<index, children, resolved, hidden, error, fetches>>
               /\ ~Emits(out', "fetch")
       /\ op'.name = "select"
            => /\ UNCHANGED <<index, children, resolved>>
               /\ VisibleNodeIds(op'.ids) \subseteq resolved
                     => /\ UNCHANGED <<hidden, error, fetches>>
                        /\ ~Emits(out', "fetch")
               /\ {f.id : f \in fetches' \ fetches} \subseteq VisibleNodeIds(op'.ids)
               /\ error' \ error \subseteq VisibleNodeIds(op'.ids)]_vars

C10_Witness ==
    /\ op.name = "select"
    /\ Emits(out, "fetch")

\* The number of levels of the dependency graph below the set S of packages,
\* S itself being the first level.
RECURSIVE LevelsFrom(_)
LevelsFrom(S) == IF S = {} THEN 0 ELSE 1 + LevelsFrom(UNION {Deps(n) : n \in S})

\* The depth of the dependency graph measured from S: the number of edges on
\* the longest path that starts in S (2 from a in the chain a -> b -> c).
DepthFrom(S) == LevelsFrom(UNION {Deps(n) : n \in S})

C12_Sequencing ==
    [][op'.name = "fulfil"
          => /\ (op'.fetch.owner.kind = "rg" /\ Emits(out', "fetch"))
                   => \A g \in fetches \ {op'.fetch} : g.owner.kind # "rg"
             /\ (op'.fetch.owner.kind \in {"rn", "rg"} /\ Emits(out', "commit"))
                   => \A g \in fetches \ {op'.fetch} : g.owner # op'.fetch.owner]_vars

C12_Witness ==
    /\ op.name = "fulfil"
    /\ op.fetch.owner.kind = "rg"
    /\ out = <<>>
    /\ \E g \in fetches : g.owner = op.fetch.owner

\* The fetches in flight, as (node id, awaiting call) pairs.
InFlight(fs) == {<<f.id, f.owner>> : f \in fs}

\* C13: Clear during resolution.  clear() cancels no fetch in flight and ends
\* no resolveNodes or resolveGraph call; a fetch for a node that clear has
\* removed fulfils without setting an error or a resolved flag; and the call
\* that awaits it still runs to its end: filter pass and commit, then the
\* resolution-end signal and the center.
C13_ClearDuringResolution ==
    /\ [][/\ op'.name = "clear"
               => /\ InFlight(fetches') = InFlight(fetches)
                  /\ \A b \in BatchIds : rn'[b] = rn[b]
                  /\ rg'.pc = rg.pc
          /\ (op'.name = "fulfil" /\ op'.fetch.det)
               => error' = error /\ resolved' = resolved]_vars
    /\ \A b \in BatchIds :
          (\E f \in fetches : f.det /\ f.owner = Owner("rn", b))
              ~> (/\ op.name = "resolveNodesEnd" /\ op.slot = b
                  /\ Has(out, Load(FALSE)) /\ Emits(out, "fit"))
    /\ (\E f \in fetches : f.det /\ f.owner = Owner("rg", 0))
          ~> (/\ op.name = "resolveGraphEnd"
              /\ Has(out, Load(FALSE)))

C13_Witness ==
    /\ op.name = "fulfil"
    /\ op.fetch.det
    /\ op.fetch.owner.kind = "rn"
    /\ rn[op.fetch.owner.slot].pc = "commit"
    /\ out = <<RefreshEv, CommitEv>>

\* The nodes of the model that are visible under the filter text.
VisibleUnder(text) == {n \in Names : children[n] > 0 /\ Matches(text, n)}

\* C14: filter(text) ordering.  Up to its commit, filter(text) sets the filter
\* text, runs the Graph Filter under that text, dispatches the deselect-all
\* and commits, in this order, with no center; it captures the nodes visible
\* under text.  The center comes in a later step, after the commit, and is a
\* call of center on the captured set (which dispatches the members of that
\* set that are still visible nodes of the Index).
C14_FilterOrdering ==
    [][/\ op'.name = "filter"
            => /\ filterText' = op'.text
               /\ hidden' = {e \in index : HiddenUnder(e, op'.text, index)}
               /\ out' = <<RefreshEv, SelectAllEv(FALSE), CommitEv>>
               /\ flt'.pending /\ flt'.center = VisibleUnder(op'.text)
       /\ op'.name = "filterEnd"
            => /\ flt.pending /\ ~flt'.pending
               /\ out' = IF flt.center = {} THEN <<>>
                         ELSE <<FitEv(VisibleNodeIds(flt.center))>>]_vars

C14_Witness ==
    /\ op.name = "filterEnd"
    /\ filterText = "a"
    /\ "b" \in index /\ "b" \in hidden
    /\ out = <<FitEv({"a"})>>

\* The nodes the step o passes to resolveNodes.
Requested(o) ==
    CASE o.name \in {"handleSelect", "handleSelectAll"} -> PassedTo(o)
      [] o.name = "select"        -> VisibleNodeIds(o.ids)
      [] o.name = "createNodeEnd" -> VisibleNodeIds({o.id})
      [] OTHER                    -> {}

\* In the sequence o, an event of kind k1 comes before every event of kind k2.
Before(o, k1, k2) ==
    \A j \in 1..Len(o) : o[j].k = k2 => \E i \in 1..(j - 1) : o[i].k = k1

\* C15: resolveNodes step order.  A call that does not short-circuit signals
\* loadIndicator(true) before it issues any fetch and remembers the non-hidden
\* nodes it was given; it runs the filter pass, directly followed by the
\* commit, only in the step at which none of its fetches remains pending;
\* after the commit it signals loadIndicator(false) and then, last, centers
\* on the remembered nodes.
C15_StepOrder ==
    [][\A b \in BatchIds :
          /\ (rn[b].pc = "idle" /\ rn'[b].pc # "idle")
                => /\ Has(out', Load(TRUE))
                   /\ Before(out', "load", "fetch")
                   /\ Before(out', "load", "refresh")
                   /\ rn'[b].center = {n \in Requested(op') : n \notin hidden}
          /\ (rn[b].pc = "idle" /\ rn'[b].pc = "fetching")
                => ~Emits(out', "refresh") /\ ~Emits(out', "commit")
          /\ (rn[b].pc # "commit" /\ rn'[b].pc = "commit")
                => /\ \A f \in fetches' : f.owner # Owner("rn", b)
                   /\ Len(out') >= 2
                   /\ SubSeq(out', Len(out') - 1, Len(out')) = <<RefreshEv, CommitEv>>
                   /\ rn'[b].center = IF rn[b].pc = "idle"
                                      THEN {n \in Requested(op') : n \notin hidden}
                                      ELSE rn[b].center
          /\ (rn[b].pc = "commit" /\ rn'[b].pc = "idle")
                => out' = <<Load(FALSE)>> \o
                          (IF rn[b].center = {} THEN <<>>
                           ELSE <<FitEv(VisibleNodeIds(rn[b].center))>>)
          /\ (rn[b].pc = "fetching" /\ rn'[b].pc = "idle")
                => op'.name = "reject"]_vars

C15_Witness ==
    /\ op.name = "resolveNodesEnd"
    /\ out = <<Load(FALSE), FitEv({"a"})>>
    /\ "b" \in index /\ "b" \notin hidden

\* The ids named by the fetch events of the sequence o.
Fetched(o) == UNION {o[i].ids : i \in {j \in 1..Len(o) : o[j].k = "fetch"}}

\* The nodes a step hands to the generator, one call each: the non-hidden
\* nodes given to a resolveNodes call that does not short-circuit, or the
\* unresolved nodes of the model in the first wave of resolveGraph.
Eligible(o) ==
    IF o.name = "resolveGraph"
    THEN {n \in NodesOf(children) : n \notin resolved}
    ELSE IF \A n \in Requested(o) : n \in hidden \/ n \in resolved
         THEN {}
         ELSE {n \in Requested(o) : n \notin hidden}

\* C16: Synchronous failure containment.  In the step that makes the generator
\* calls of a resolveNodes batch or of the first wave of resolveGraph, every
\* eligible node either has a fetch issued or, its call having thrown, ends
\* the step with an error, and no other node gets one; the fetches of the
\* others are pending, and the call goes on: it waits for them or, when every
\* call threw, runs its filter pass and commit at once.
C16_SyncContainment ==
    [][Eligible(op') # {}
          => /\ Eligible(op') \ Fetched(out') \subseteq error'
             /\ error' \ error \subseteq Eligible(op') \ Fetched(out')
             /\ Fetched(out') \subseteq Eligible(op')
             /\ \A n \in Fetched(out') : \E f \in fetches' \ fetches : f.id = n
             /\ IF op'.name = "resolveGraph"
                THEN rg'.pc = (IF Fetched(out') = {} THEN "commit" ELSE "fetching")
                ELSE \E b \in BatchIds :
                        /\ rn[b].pc = "idle"
                        /\ rn'[b].pc = (IF Fetched(out') = {} THEN "commit" ELSE "fetching")
             /\ Fetched(out') = {}
                   => SubSeq(out', Len(out') - 1, Len(out')) = <<RefreshEv, CommitEv>>]_vars

C16_Witness ==
    /\ op.name = "handleSelectAll"
    /\ "a" \in error
    /\ out = <<Load(TRUE), FetchEv({"b"})>>

\* The steps that call resolveNodes.
CallsResolveNodes(o) ==
    o.name \in {"select", "handleSelect", "handleSelectAll", "createNodeEnd"}

\* C17 as stated: a resolveNodes call issues a fetch only for the nodes it was
\* given that are neither hidden nor resolved when it is called.
C17_OnlyUnresolved ==
    [][CallsResolveNodes(op')
          => Fetched(out') \subseteq
                {n \in Requested(op') : n \notin hidden /\ n \notin resolved}]_vars

\* C17, amended: a resolveNodes call issues no fetch when every node it was
\* given is hidden or resolved; otherwise it calls the generator for every
\* node it was given that is not hidden, the resolved ones included (each has
\* a fetch issued or, its call having thrown, an error), and for no other
\* node; the hidden nodes are neither fetched nor among the center targets.
C17_NonHidden ==
    [][CallsResolveNodes(op')
          => /\ Fetched(out') \subseteq Eligible(op')
             /\ Eligible(op') \ Fetched(out') \subseteq error'
             /\ \A n \in Requested(op') \cap hidden : n \notin Fetched(out')
             /\ \A b \in BatchIds :
                   (rn[b].pc = "idle" /\ rn'[b].pc # "idle")
                       => rn'[b].center = Requested(op') \ hidden]_vars

C17_Witness ==
    /\ op.name = "handleSelectAll"
    /\ "a" \in resolved
    /\ "b" \notin resolved
    /\ out = <<Load(TRUE), FetchEv({"a", "b"})>>

\* C18: Layout application.  Handling computed bounds applies the bounds of
\* the entries whose id is in the Index, then (when alignments are given)
\* their alignments, skips every other entry, sets no error, changes nothing
\* of the model and starts one Layout Engine pass; when the pass settles
\* there is exactly one commit, preceded by a log entry when it rejected, and
\* no further pass is started.
C18_Layout ==
    [][/\ op'.name = "computedBounds"
            => /\ out' = <<BoundsEv({id \in op'.ids : id \in index})>> \o
                         (IF op'.aligned
                          THEN <<AlignEv({id \in op'.ids : id \in index})>>
                          ELSE <<>>)
               /\ UNCHANGED <<index, children, resolved, hidden, error>>
               /\ ~elk /\ elk'
       /\ op'.name = "layoutSettles"
            => /\ elk /\ ~elk'
               /\ Count(out', "commit") = 1
               /\ out' = IF op'.ok THEN <<CommitEv>> ELSE <<LogEv, CommitEv>>
               /\ UNCHANGED <<index, children, resolved, hidden, error>>]_vars

C18_Witness ==
    /\ op.name = "computedBounds"
    /\ op.aligned
    /\ \E id \in op.ids : id \notin index
    /\ out[1].ids # {}
    /\ out[2] = AlignEv(out[1].ids)

\* C19: Overlapping batches.  Whenever the last load-indicator signal is
\* false, no resolveNodes or resolveGraph call has a fetch outstanding.
C19_IndicatorOff ==
    indicator = "off" => \A f \in fetches : f.owner.kind \notin {"rn", "rg"}

\* C20 as stated: createNode of a new node is always followed by a generator
\* call for that node (a fetch, or an error when the call threw) in the
\* step that selects it.
C20_AlwaysFetch ==
    [][op'.name = "createNodeEnd"
          => op'.id \in Fetched(out') \cup error']_vars

\* C20, amended: a selection handled by the controller that names at least
\* one indexed node starts resolveNodes on exactly those nodes: a center only
\* when all of them are hidden or resolved, and otherwise a generator call for
\* each of them that is not hidden.  So the selection that createNode makes
\* after its commit causes a generator call for the node when the node is then
\* still indexed, visible and unresolved.  A select-all with select = false,
\* as filter dispatches it, starts no resolution.
C20_SelectionResolves ==
    [][/\ (CallsResolveNodes(op') /\ Requested(op') # {})
            => IF \A n \in Requested(op') : n \in hidden \/ n \in resolved
               THEN /\ fetches' = fetches
                    /\ out'[Len(out')] = FitEv(Requested(op') \ hidden)
               ELSE /\ Fetched(out') \subseteq Requested(op') \ hidden
                    /\ Requested(op') \ hidden \subseteq Fetched(out') \cup error'
                    /\ \E b \in BatchIds :
                          /\ rn[b].pc = "idle" /\ rn'[b].pc # "idle"
                          /\ rn'[b].center = Requested(op') \ hidden
       /\ (/\ op'.name = "createNodeEnd"
           /\ op'.id \in index /\ op'.id \notin hidden /\ op'.id \notin resolved)
            => op'.id \in Fetched(out') \cup error'
       /\ (op'.name = "handleSelectAll" /\ ~op'.select)
            => out' = <<>> /\ UNCHANGED <<fetches, rn, indicator, error>>
       /\ op'.name = "filter"
            => /\ Has(out', SelectAllEv(FALSE))
               /\ ~Emits(out', "fetch")
               /\ UNCHANGED <<fetches, rn, indicator>>]_vars

C20_Witness ==
    /\ op.name = "createNodeEnd"
    /\ out = <<SelectEv({op.id}), Load(TRUE), FetchEv({op.id})>>

===========================================================================
